---- MODULE Spec2Model ----
(***************************************************************************)
(* Model of the workflow graph execution engine, execute_flow in           *)
(* src/main.py (lines 392-438).  A request (nodes, edges, payload) is      *)
(* drawn in the initial state; the for loop over the start nodes and the   *)
(* while loop over the nodes of one traversal are the two actions.         *)
(*                                                                         *)
(* Python values: a dict is a function whose DOMAIN is its set of keys, a  *)
(* list is a sequence, None is the string None below (no input string      *)
(* equals it), a JSON null config is the dict NullConfig.                  *)
(*                                                                         *)
(* The module also models the chat connection registry, ConnectionManager  *)
(* and chat_ws (lines 264-296), whose variables the engine leaves alone.   *)
(***************************************************************************)
EXTENDS Integers, Sequences, FiniteSets, TLC

VARIABLES
    nodes,       \* payload.nodes: the request's list of node dicts
    edges,       \* payload.edges: the request's list of edge dicts
    payload,     \* payload.payload: the caller's initial context
    ctx,         \* ctx, the copy of the payload the traversal works on
    logs,        \* logs, the list of rendered trace entries
    now,         \* the clock now_utc() reads
    pc,          \* "for" | "while" | "done" | "raised"
    si,          \* how many start nodes the for loop has taken
    current_id,  \* current_id of the while loop
    visited,     \* visited of the current traversal
    error,       \* the exception that left execute_flow, "" when none
    trail,       \* history: one entry per iteration of the while loop body
    logtrav,     \* history: for each entry of logs, the traversal that wrote it
    halt,        \* history: why the last traversal ended
    starts,      \* history: the start nodes taken so far, in order
    result,      \* the value execute_flow returned, EmptyDict before it returns
    calls,       \* how many calls of execute_flow have been started
    first,       \* history: the value the first call returned
    active,      \* manager.active: chat id -> list of registered websockets
    hpc,         \* chat_ws: where each websocket's handler stands
    bq,          \* broadcast: the part of the copied list still to be sent to
    snap,        \* history: the list a handler's current broadcast copied
    att          \* history: the sends a handler's current broadcast attempted

engineVars == <<nodes, edges, payload, ctx, logs, now, pc, si, current_id,
                visited, error, trail, logtrav, halt, starts, result, calls,
                first>>

wsVars == <<active, hpc, bq, snap, att>>

vars == <<engineVars, wsVars>>

(***************************************************************************)
(* Bounds of the model.                                                    *)
(***************************************************************************)
MaxNodes == 2
MaxEdges == 2
MaxAge == 40

(***************************************************************************)
(* Python helpers.                                                         *)
(***************************************************************************)
None == "<None>"
EmptyDict == <<>>
NullConfig == [null |-> TRUE]

\* d.get(k, dflt)
Get(d, k, dflt) == IF k \in DOMAIN d THEN d[k] ELSE dflt

\* truth value of an id: None and the empty string are falsy
Truthy(v) == v # None /\ v # ""

\* str(b) of a bool
PyStrBool(b) == IF b THEN "True" ELSE "False"

\* xs[:1]
Slice1(xs) == SubSeq(xs, 1, IF Len(xs) < 1 THEN Len(xs) ELSE 1)

\* d without key k (dict.pop's effect on the dict)
Without(d, k) == [x \in DOMAIN d \ {k} |-> d[x]]

PayloadDropped(p) == EmptyDict

\* payload.payload.copy(): a new dict with the same keys and values
PayloadCopy(p) == [k \in DOMAIN p |-> p[k]]

SeqsUpTo(S, n) == UNION {[1..k -> S] : k \in 0..n}

(***************************************************************************)
(* execute_flow, lines 397-399: the id index and the start nodes.          *)
(***************************************************************************)
\* {n.get("id"): n for n in payload.nodes}: a later node replaces an earlier
\* one with the same id
node_map(ns) ==
    [k \in {Get(ns[i], "id", None) : i \in 1..Len(ns)} |->
        LET last == CHOOSE i \in 1..Len(ns) :
                        /\ Get(ns[i], "id", None) = k
                        /\ \A j \in 1..Len(ns) :
                              Get(ns[j], "id", None) = k => j <= i
        IN ns[last]]

IsTrigger(n) == Get(n, "type", None) = "trigger"

StartNodesFirstTriggerOnly(ns) == Slice1(SelectSeq(ns, IsTrigger) \o Slice1(ns))

\* [n for n in payload.nodes if n.get("type") == "trigger"] or payload.nodes[:1]
start_nodes(ns) ==
    LET triggers == SelectSeq(ns, IsTrigger)
    IN IF triggers # <<>> THEN triggers ELSE Slice1(ns)

(***************************************************************************)
(* The condition evaluator, line 420: eval(cond, {}, {"ctx": ctx}) on the  *)
(* expressions of Exprs, with ctx a dict.  The result is whether eval      *)
(* raised an Exception, the value of bool(...) and the dict afterwards.    *)
(***************************************************************************)
ExprTrue == "True"
ExprAttr == "ctx.age >= 18"
ExprItem == "ctx['age'] >= 18"
ExprPop == "ctx.pop('age', 0) >= 18"
ExprSyntax == "ctx['age'] >="
ExprClock == "__import__('time').time_ns() % 2 == 0"
Exprs == {ExprTrue, ExprAttr, ExprItem, ExprPop, ExprSyntax}

Eval(cond, c) ==
    CASE cond = ExprTrue ->
            [raised |-> FALSE, value |-> TRUE, ctx |-> c]
      [] cond = ExprItem ->
            \* KeyError when the key is absent
            IF "age" \in DOMAIN c
            THEN [raised |-> FALSE, value |-> c["age"] >= 18, ctx |-> c]
            ELSE [raised |-> TRUE, value |-> FALSE, ctx |-> c]
      [] cond = ExprPop ->
            \* dict.pop removes the key and never raises with a default
            [raised |-> FALSE, value |-> Get(c, "age", 0) >= 18,
             ctx |-> Without(c, "age")]
      [] cond = ExprAttr ->
            \* AttributeError: a dict has no attribute 'age'
            [raised |-> TRUE, value |-> FALSE, ctx |-> c]
      [] cond = ExprClock ->
            \* eval runs with the builtins: the expression reads the clock
            [raised |-> FALSE, value |-> now % 2 = 0, ctx |-> c]
      [] OTHER ->
            \* SyntaxError
            [raised |-> TRUE, value |-> FALSE, ctx |-> c]

CondOkTrueOnError(r) == IF r.raised THEN TRUE ELSE r.value

\* try: ok = bool(eval(...)) except Exception: ok = False
CondOk(r) == IF r.raised THEN FALSE ELSE r.value

\* f"Condition '{cond}' -> {ok}"
CondMessage(cond, r) == "Condition '" \o cond \o "' -> " \o PyStrBool(CondOk(r))

CondBreaksNever(ok) == FALSE

\* if not ok: break
CondBreaks(ok) == ~ok

(***************************************************************************)
(* The messages of the trigger and action branches, lines 415-433.         *)
(***************************************************************************)
\* f"Trigger: {cfg.get('name', 'start')}"
TriggerMessage(cfg) == "Trigger: " \o Get(cfg, "name", "start")

\* the three action branches
ActionMessage(cfg) ==
    LET act == Get(cfg, "name", "noop")
    IN IF act = "send_message"
       THEN "Action: send_message -> " \o Get(cfg, "text", "")
       ELSE IF act = "delay"
       THEN "Action: delay " \o ToString(Get(cfg, "ms", 0)) \o "ms (simulated)"
       ELSE "Action: " \o act

(***************************************************************************)
(* log, lines 401-403: the entry is the timestamp read and the message.    *)
(***************************************************************************)
now_utc == now

LogPrepend(ls, msg) == <<[ts |-> now_utc, msg |-> msg]>> \o ls

log(ls, msg) == Append(ls, [ts |-> now_utc, msg |-> msg])

Messages(ls) == [i \in 1..Len(ls) |-> ls[i].msg]

(***************************************************************************)
(* Edge selection, lines 435-436.                                          *)
(***************************************************************************)
\* [e for e in payload.edges if e.get("from") == current_id]
next_edges(es, id) == SelectSeq(es, LAMBDA e : Get(e, "from", None) = id)

NextEdgeLast(es, id) == next_edges(es, id)[Len(next_edges(es, id))]

\* next_edges[0]
NextEdge(es, id) == next_edges(es, id)[1]

WhileCondIgnoresVisited(id, v) == Truthy(id)

\* line 408: current_id and current_id not in visited
WhileCond(id, v) == Truthy(id) /\ id \notin v

FreshVisitedKept(v) == v

\* line 407: visited = set(), at the start of every traversal
FreshVisited(v) == {}

VisitedAddNothing(v, id) == v

\* visited.add(current_id)
VisitedAdd(v, id) == v \cup {id}

(***************************************************************************)
(* One iteration of the while loop body, lines 409-436, as a function of   *)
(* the state: what it appends to logs, the context afterwards, and how it  *)
(* leaves: "next" (current_id is assigned), "break", or "raise".           *)
(***************************************************************************)
\* cfg.get(...) on a JSON null config raises AttributeError
IsNull(cfg) == "null" \in DOMAIN cfg

\* an iteration that logs nothing and goes on to the edge selection
Plain(c) ==
    [leave |-> "next", msgs |-> <<>>, ctx |-> c, ok |-> TRUE, raised |-> FALSE]

OtherTypeStops(c) == [Plain(c) EXCEPT !.leave = "break"]

\* lines 415-433 have no else: a node of any other type falls through
OtherType(c) == Plain(c)

MissingLeaveRaises == "raise"

\* lines 411-412: if not node: break
MissingLeave == "break"

AfterBreakReturns == "done"

\* a break leaves the while loop for the next pass of the for loop
AfterBreak == "for"

\* lines 413-433: the branch on the node's type; raised says that eval raised
\* an Exception, which line 421 caught
Branch(node, c) ==
    LET ntype == Get(node, "type", None)
        cfg == Get(node, "config", EmptyDict)
        plain == Plain(c)
    IN IF ntype = "trigger"
       THEN IF IsNull(cfg)
            THEN [plain EXCEPT !.leave = "raise"]
            ELSE [plain EXCEPT !.msgs = <<TriggerMessage(cfg)>>]
       ELSE IF ntype = "condition"
       THEN IF IsNull(cfg)
            THEN [plain EXCEPT !.leave = "raise"]
            ELSE LET cond == Get(cfg, "expr", "True")
                     r == Eval(cond, c)
                 IN [leave |-> IF CondBreaks(CondOk(r)) THEN "break" ELSE "next",
                     msgs |-> <<CondMessage(cond, r)>>,
                     ctx |-> r.ctx, ok |-> CondOk(r), raised |-> r.raised]
       ELSE IF ntype = "action"
       THEN IF IsNull(cfg)
            THEN [plain EXCEPT !.leave = "raise"]
            ELSE [plain EXCEPT !.msgs = <<ActionMessage(cfg)>>]
       ELSE OtherType(c)

\* lines 410-436: the body for current_id = id
Body(id, c) ==
    LET nm == node_map(nodes)
    IN IF id \notin DOMAIN nm
       THEN \* if not node: break
            [leave |-> MissingLeave, why |-> "missing", msgs |-> <<>>, ctx |-> c,
             ok |-> TRUE, raised |-> FALSE, found |-> FALSE,
             node |-> EmptyDict, next |-> id, error |-> ""]
       ELSE LET node == nm[id]
                b == Branch(node, c)
                out == [leave |-> b.leave, why |-> "", msgs |-> b.msgs,
                        ctx |-> b.ctx, ok |-> b.ok, raised |-> b.raised,
                        found |-> TRUE, node |-> node, next |-> id,
                        error |-> ""]
            IN IF b.leave = "raise"
               THEN [out EXCEPT !.why = "raise", !.error = "AttributeError"]
               ELSE IF b.leave = "break"
               THEN [out EXCEPT !.why = "condition"]
               ELSE IF next_edges(edges, id) = <<>>
               THEN [out EXCEPT !.next = None]
               ELSE IF "to" \notin DOMAIN NextEdge(edges, id)
               THEN \* next_edges[0]["to"] raises KeyError
                    [out EXCEPT !.leave = "raise", !.why = "raise",
                                !.error = "KeyError"]
               ELSE [out EXCEPT !.next = NextEdge(edges, id)["to"]]

\* the log calls of one iteration, in order
RECURSIVE LogAll(_, _)
LogAll(ls, msgs) ==
    IF msgs = <<>> THEN ls ELSE LogAll(log(ls, msgs[1]), Tail(msgs))

(***************************************************************************)
(* The for loop, line 405 (and lines 406-407 of its body), and the return  *)
(* of line 438 once the start nodes are exhausted.                         *)
(***************************************************************************)
For ==
    /\ pc = "for"
    /\ IF si < Len(start_nodes(nodes))
       THEN LET start == start_nodes(nodes)[si + 1]
            IN /\ si' = si + 1
               /\ current_id' = Get(start, "id", None)
               /\ visited' = FreshVisited(visited)
               /\ pc' = "while"
               /\ starts' = Append(starts, start)
               /\ halt' = ""
               /\ UNCHANGED result
       ELSE \* return {"ok": True, "logs": logs, "context": ctx}
            /\ pc' = "done"
            /\ result' = [ok |-> TRUE, logs |-> logs, context |-> ctx]
            /\ UNCHANGED <<si, current_id, visited, starts, halt>>
    /\ UNCHANGED <<nodes, edges, payload, ctx, logs, now, error, trail, logtrav,
                   calls, first>>
    /\ UNCHANGED wsVars

(***************************************************************************)
(* The while loop, line 408: one test of its condition and, when it holds, *)
(* one run of its body.                                                    *)
(***************************************************************************)
While ==
    /\ pc = "while"
    /\ IF WhileCond(current_id, visited)
       THEN LET b == Body(current_id, ctx)
            IN /\ visited' = VisitedAdd(visited, current_id)
               /\ logs' = LogAll(logs, b.msgs)
               /\ now' = now + Len(b.msgs)
               /\ ctx' = b.ctx
               /\ current_id' = b.next
               /\ pc' = CASE b.leave = "next" -> "while"
                          [] b.leave = "break" -> AfterBreak
                          [] OTHER -> "raised"
               /\ error' = b.error
               /\ halt' = b.why
               /\ trail' = Append(trail,
                      [trav |-> si, id |-> current_id, found |-> b.found,
                       node |-> b.node, ok |-> b.ok, raised |-> b.raised,
                       msgs |-> b.msgs, leave |-> b.leave,
                       nlogs |-> Len(logs) + Len(b.msgs),
                       ctxin |-> ctx, ctxout |-> b.ctx])
               /\ logtrav' = logtrav \o [i \in 1..Len(b.msgs) |-> si]
       ELSE /\ pc' = "for"
            /\ halt' = IF Truthy(current_id) THEN "cycle" ELSE "end"
            /\ UNCHANGED <<visited, logs, now, ctx, current_id, error, trail,
                           logtrav>>
    /\ UNCHANGED <<nodes, edges, payload, si, starts, result, calls, first>>
    /\ UNCHANGED wsVars

Next == For \/ While

(***************************************************************************)
(* The connection registry while only the engine is observed: nobody is    *)
(* connected.                                                              *)
(***************************************************************************)
Sockets == {"w1", "w2", "w3"}
Chat == "chat1"

NoChat ==
    /\ active = EmptyDict
    /\ hpc = [w \in Sockets |-> "new"]
    /\ bq = [w \in Sockets |-> <<>>]
    /\ snap = [w \in Sockets |-> <<>>]
    /\ att = [w \in Sockets |-> <<>>]

(***************************************************************************)
(* ConnectionManager, lines 264-281.  The handlers run on one event loop:  *)
(* a handler runs alone from one await to the next, and the other handlers *)
(* run while it waits.  A handler's steps are therefore: the append after  *)
(* accept returned; receive_text returning a text, up to the first send of *)
(* the broadcast (the list copy included); one send returning or raising,  *)
(* with the except clause; receive_text raising WebSocketDisconnect.       *)
(***************************************************************************)
RECURSIVE RemoveFirst(_, _)
\* list.remove(x)
RemoveFirst(l, x) ==
    IF l = <<>> THEN <<>>
    ELSE IF Head(l) = x THEN Tail(l)
    ELSE <<Head(l)>> \o RemoveFirst(Tail(l), x)

InList(l, x) == \E i \in DOMAIN l : l[i] = x

\* line 269: self.active.setdefault(chat_id, []).append(websocket)
SetDefaultAppend(act, chat, ws) ==
    [k \in DOMAIN act \cup {chat} |->
        IF k = chat THEN Append(Get(act, chat, <<>>), ws) ELSE act[k]]

DisconnectKeeps(act, chat, ws) == act

\* lines 271-273
disconnect(act, chat, ws) ==
    IF chat \in DOMAIN act /\ InList(act[chat], ws)
    THEN [act EXCEPT ![chat] = RemoveFirst(@, ws)]
    ELSE act

\* line 276: list(self.active.get(chat_id, []))
ListCopy(act, chat) == Get(act, chat, <<>>)

\* lines 290 and 267-269: connect, resumed after accept
Connect(w) ==
    /\ hpc[w] = "new"
    /\ active' = SetDefaultAppend(active, Chat, w)
    /\ hpc' = [hpc EXCEPT ![w] = "recv"]
    /\ UNCHANGED <<bq, snap, att>>
    /\ UNCHANGED engineVars

\* lines 293-294 and 276: a text arrives and the broadcast copies the list
Receive(w) ==
    /\ hpc[w] = "recv"
    /\ LET l == ListCopy(active, Chat)
       IN /\ snap' = [snap EXCEPT ![w] = l]
          /\ bq' = [bq EXCEPT ![w] = l]
          /\ att' = [att EXCEPT ![w] = <<>>]
          /\ hpc' = [hpc EXCEPT ![w] = IF l = <<>> THEN "recv" ELSE "bcast"]
    /\ UNCHANGED active
    /\ UNCHANGED engineVars

\* lines 277-280: one send_json returns or raises; the for loop goes on
Send(w) ==
    /\ hpc[w] = "bcast"
    /\ \E ok \in BOOLEAN :
          LET ws == Head(bq[w])
          IN /\ active' = IF ok THEN active ELSE disconnect(active, Chat, ws)
             /\ att' = [att EXCEPT ![w] = Append(@, [ws |-> ws, ok |-> ok])]
    /\ bq' = [bq EXCEPT ![w] = Tail(@)]
    /\ hpc' = [hpc EXCEPT ![w] = IF Tail(bq[w]) = <<>> THEN "recv" ELSE "bcast"]
    /\ UNCHANGED snap
    /\ UNCHANGED engineVars

\* lines 293 and 295-296: receive_text raises WebSocketDisconnect
Drop(w) ==
    /\ hpc[w] = "recv"
    /\ active' = disconnect(active, Chat, w)
    /\ hpc' = [hpc EXCEPT ![w] = "closed"]
    /\ snap' = [snap EXCEPT ![w] = <<>>]
    /\ att' = [att EXCEPT ![w] = <<>>]
    /\ UNCHANGED bq
    /\ UNCHANGED engineVars

NextWS == \E w \in Sockets : Connect(w) \/ Receive(w) \/ Send(w) \/ Drop(w)

(***************************************************************************)
(* The requests.  InitWith draws one request and is the state after lines  *)
(* 394-395: no logs, ctx a copy of the payload.                            *)
(***************************************************************************)
InitWith(NodeLists, EdgeLists, Payloads) ==
    /\ nodes \in NodeLists
    /\ edges \in EdgeLists
    /\ payload \in Payloads
    /\ ctx = PayloadCopy(payload)
    /\ logs = <<>>
    /\ now = 0
    /\ pc = "for"
    /\ si = 0
    /\ current_id = None
    /\ visited = {}
    /\ error = ""
    /\ trail = <<>>
    /\ logtrav = <<>>
    /\ halt = ""
    /\ starts = <<>>
    /\ result = EmptyDict
    /\ calls = 1
    /\ first = EmptyDict
    /\ NoChat

WithId(t, i) == [k \in DOMAIN t \cup {"id"} |-> IF k = "id" THEN i ELSE t[k]]

TriggerNode == [type |-> "trigger", config |-> [name |-> "start"]]
ConditionNode(e) == [type |-> "condition", config |-> [expr |-> e]]
SendNode == [type |-> "action", config |-> [name |-> "send_message", text |-> "Welcome"]]
DelayNode == [type |-> "action", config |-> [name |-> "delay", ms |-> 500]]
ArchiveNode == [type |-> "action", config |-> [name |-> "archive"]]
NoteNode == [type |-> "note", config |-> EmptyDict]

(***************************************************************************)
(* Spec: every well-formed graph of at most MaxNodes nodes and MaxEdges    *)
(* edges over two ids.  Every node has an id, a type and a config dict,    *)
(* every edge a from and a to; an edge is dangling when no node has its    *)
(* target id.  The condition is true, false or raises KeyError after the   *)
(* payload.                                                                *)
(***************************************************************************)
GraphIds == {"t1", "c1"}
GraphTemplates == {TriggerNode, ConditionNode(ExprItem), SendNode, NoteNode}
GraphNodes == {WithId(t, i) : t \in GraphTemplates, i \in GraphIds}
GraphEdges == [from : GraphIds, to : GraphIds]
GraphPayloads == {[age |-> 21], [age |-> 10], EmptyDict}

Init ==
    InitWith(SeqsUpTo(GraphNodes, MaxNodes), SeqsUpTo(GraphEdges, MaxEdges),
             GraphPayloads)

Spec == Init /\ [][Next]_vars

(***************************************************************************)
(* SpecChain: the chain t1 -> c1 -> a1 of the spec's Scenario A, with any  *)
(* expression of Exprs on the condition, any of three actions, with or     *)
(* without an edge back from a1 to t1, and a payload that is empty or      *)
(* holds an age up to MaxAge.                                              *)
(***************************************************************************)
ChainNodes(e, a) ==
    <<WithId(TriggerNode, "t1"), WithId(ConditionNode(e), "c1"), WithId(a, "a1")>>
ChainEdges == <<[from |-> "t1", to |-> "c1"], [from |-> "c1", to |-> "a1"]>>
BackEdge == [from |-> "a1", to |-> "t1"]

InitChain ==
    InitWith({ChainNodes(e, a) : e \in Exprs, a \in {SendNode, DelayNode, ArchiveNode}},
             {ChainEdges, Append(ChainEdges, BackEdge)},
             {EmptyDict} \cup {[age |-> a] : a \in 0..MaxAge})

SpecChain == InitChain /\ [][Next]_vars

(***************************************************************************)
(* SpecFan: three nodes t1, t2, a1 and at most MaxEdges edges among them   *)
(* and to the id "zz", which no node has.  t1 is a trigger, t2 a trigger   *)
(* or an action, a1 an action, a condition (one of them removes a key from *)
(* the context), a node of another type or a node without a type.          *)
(***************************************************************************)
FanIds == {"t1", "t2", "a1"}
UntypedNode == [config |-> EmptyDict]
FanSecond == {TriggerNode, SendNode}
FanThird ==
    {SendNode, ConditionNode(ExprItem), ConditionNode(ExprPop), NoteNode,
     UntypedNode}
FanNodes(x, y) == <<WithId(TriggerNode, "t1"), WithId(x, "t2"), WithId(y, "a1")>>
FanEdges == [from : FanIds, to : FanIds \cup {"zz"}]

InitFan ==
    InitWith({FanNodes(x, y) : x \in FanSecond, y \in FanThird},
             SeqsUpTo(FanEdges, MaxEdges),
             {[age |-> 21], [age |-> 10]})

SpecFan == InitFan /\ [][Next]_vars

(***************************************************************************)
(* SpecWS: the handlers of the websockets of Sockets, all on the chat id   *)
(* Chat, while no flow executes.                                           *)
(***************************************************************************)
InitWS == InitWith({<<>>}, {<<>>}, {EmptyDict})

SpecWS == InitWS /\ [][NextWS]_vars

(***************************************************************************)
(* SpecTwice: the same request served twice by the process.  Again is the  *)
(* entry of a second call of execute_flow (lines 393-395) with the same    *)
(* nodes, edges and payload, after the first call returned and some time   *)
(* passed; first keeps what the first call returned.  The condition of the *)
(* chain is any expression of Exprs or ExprClock.                          *)
(***************************************************************************)
Again ==
    /\ pc = "done"
    /\ calls = 1
    /\ calls' = 2
    /\ first' = result
    /\ result' = EmptyDict
    /\ ctx' = PayloadCopy(payload)
    /\ logs' = <<>>
    /\ now' \in {now, now + 1}
    /\ pc' = "for"
    /\ si' = 0
    /\ current_id' = None
    /\ visited' = {}
    /\ trail' = <<>>
    /\ logtrav' = <<>>
    /\ halt' = ""
    /\ starts' = <<>>
    /\ UNCHANGED <<nodes, edges, payload, error>>
    /\ UNCHANGED wsVars

NextTwice == For \/ While \/ Again

InitTwice ==
    InitWith({ChainNodes(e, SendNode) : e \in Exprs \cup {ExprClock}},
             {ChainEdges},
             {EmptyDict} \cup {[age |-> a] : a \in 0..MaxAge})

SpecTwice == InitTwice /\ [][NextTwice]_vars

(***************************************************************************)
(* SpecLoose: loosely formed requests.  A node may lack its id, carry an   *)
(* empty id, lack its type or its config, or carry a null config; an edge  *)
(* may lack its to or carry a null to.                                     *)
(***************************************************************************)
LooseTemplates ==
    {TriggerNode, [type |-> "trigger"], [type |-> "trigger", config |-> NullConfig],
     [config |-> [name |-> "start"]], ArchiveNode}
LooseNodes ==
    LooseTemplates \cup {WithId(t, i) : t \in LooseTemplates, i \in {"t1", ""}}
LooseEdges == {[from |-> "t1"]} \cup [from : {"t1"}, to : {"t1", "a1", None}]

InitLoose ==
    InitWith(SeqsUpTo(LooseNodes, MaxNodes), SeqsUpTo(LooseEdges, MaxEdges),
             {EmptyDict})

SpecLoose == InitLoose /\ [][Next]_vars

(***************************************************************************)
(* Vocabulary of the properties.                                           *)
(***************************************************************************)
\* the iterations of traversal t
TrailOf(t) == {k \in DOMAIN trail : trail[k].trav = t}

NodeType(e) == Get(e.node, "type", None)
IsConditionStep(e) == e.found /\ NodeType(e) = "condition"
ExprOf(e) == Get(Get(e.node, "config", EmptyDict), "expr", "True")

IdOf(n) == Get(n, "id", None)
NodeIdSet == {IdOf(nodes[i]) : i \in DOMAIN nodes}

HasEdgeFrom(id) == \E i \in DOMAIN edges : Get(edges[i], "from", None) = id
FirstEdgeFrom(id) ==
    CHOOSE i \in DOMAIN edges :
        /\ Get(edges[i], "from", None) = id
        /\ \A j \in 1..(i - 1) : Get(edges[j], "from", None) # id
Followed(id) == IF HasEdgeFrom(id) THEN edges[FirstEdgeFrom(id)]["to"] ELSE None

SameDict(a, b) == DOMAIN a = DOMAIN b /\ \A k \in DOMAIN a : a[k] = b[k]

AgeIs(p, a) == "age" \in DOMAIN p /\ p["age"] = a

(***************************************************************************)
(* C1, as stated: a call that met a cycle returns after at most N+1 node   *)
(* steps in total, N the number of nodes of the request.                   *)
(***************************************************************************)
C1_TotalStepBound ==
    (pc \in {"for", "done"} /\ halt = "cycle") => Len(trail) <= Len(nodes) + 1

(***************************************************************************)
(* C1, amended: every start node's traversal takes at most N+1 node steps, *)
(* so the call takes at most S*(N+1) steps, S the number of start nodes;   *)
(* no cycle makes it loop.                                                 *)
(***************************************************************************)
C1_TraversalStepBound ==
    /\ \A t \in 1..si : Cardinality(TrailOf(t)) <= Len(nodes) + 1
    /\ Len(trail) <= Len(start_nodes(nodes)) * (Len(nodes) + 1)
    /\ si <= Len(start_nodes(nodes))

\* a call returned, its last traversal halted on a cycle, and the call took
\* more than N+1 steps
C1_CycleOverTotal ==
    pc = "done" /\ halt = "cycle" /\ Len(trail) > Len(nodes) + 1

(***************************************************************************)
(* C2: once a traversal has stepped a condition node whose expression is   *)
(* false, that traversal steps no further node and logs nothing after the  *)
(* condition's own event.                                                  *)
(***************************************************************************)
C2_ConditionShortCircuit ==
    \A k \in DOMAIN trail :
        (IsConditionStep(trail[k]) /\ ~trail[k].ok) =>
            /\ \A j \in DOMAIN trail : j > k => trail[j].trav # trail[k].trav
            /\ \A q \in DOMAIN logtrav :
                  q > trail[k].nlogs => logtrav[q] # trail[k].trav
            /\ logs[trail[k].nlogs].msg = trail[k].msgs[1]
            /\ (trail[k].trav = si => pc # "while")

\* a returned call in which a condition evaluated to false (without raising)
\* on a node whose first outgoing edge leads to a node not yet visited
C2_FalseConditionWithSuccessor ==
    /\ pc = "done"
    /\ \E k \in DOMAIN trail :
          /\ IsConditionStep(trail[k]) /\ ~trail[k].ok /\ ~trail[k].raised
          /\ HasEdgeFrom(trail[k].id)
          /\ Followed(trail[k].id) \in NodeIdSet
          /\ \A j \in TrailOf(trail[k].trav) : trail[j].id # Followed(trail[k].id)

(***************************************************************************)
(* C3: within one traversal no node id is stepped twice; a traversal whose *)
(* next id is already visited halts on it; a trigger t1 with the self-edge *)
(* t1 -> t1 logs exactly one line, "Trigger: start".                       *)
(***************************************************************************)
C3_NoRevisit ==
    /\ \A j, k \in DOMAIN trail :
          (j < k /\ trail[j].trav = trail[k].trav) => trail[j].id # trail[k].id
    /\ (pc = "for" /\ halt = "cycle") =>
          \E k \in TrailOf(si) : trail[k].id = current_id
    /\ (/\ pc = "done"
        /\ nodes = <<WithId(TriggerNode, "t1")>>
        /\ edges = <<[from |-> "t1", to |-> "t1"]>>)
          => Messages(logs) = <<"Trigger: start">>

\* the self-edge scenario has returned, halted on the cycle
C3_SelfEdgeHalted ==
    /\ pc = "done"
    /\ halt = "cycle"
    /\ nodes = <<WithId(TriggerNode, "t1")>>
    /\ edges = <<[from |-> "t1", to |-> "t1"]>>

(***************************************************************************)
(* C4: a request in which two nodes carry the same id is rejected: no node *)
(* is stepped and the call does not return a result.                       *)
(***************************************************************************)
HasDuplicateIds ==
    \E i, j \in DOMAIN nodes : i < j /\ IdOf(nodes[i]) = IdOf(nodes[j])

C4_DuplicateIdsRejected ==
    HasDuplicateIds => (trail = <<>> /\ pc # "done")

(***************************************************************************)
(* C5: a request in which a node has an empty or missing id is rejected:   *)
(* the call does not return a result.                                      *)
(***************************************************************************)
HasEmptyId == \E i \in DOMAIN nodes : ~Truthy(IdOf(nodes[i]))

C5_EmptyIdsRejected == HasEmptyId => pc # "done"

(***************************************************************************)
(* C6: the node stepped after a node, in the same traversal, is the target *)
(* of the first edge in input order whose from is that node's id, and the  *)
(* traversal ends at a node with no outgoing edge.                         *)
(***************************************************************************)
C6_FirstEdgeFollowed ==
    /\ \A k \in DOMAIN trail :
          (k + 1 \in DOMAIN trail /\ trail[k + 1].trav = trail[k].trav) =>
              /\ HasEdgeFrom(trail[k].id)
              /\ trail[k + 1].id = Followed(trail[k].id)
    /\ (pc = "while" /\ TrailOf(si) # {}) =>
          current_id = Followed(trail[Len(trail)].id)

\* a step followed the first of two edges that leave a node for different
\* targets
C6_TwoEdgesOneFollowed ==
    \E k \in DOMAIN trail :
        /\ k + 1 \in DOMAIN trail
        /\ trail[k + 1].trav = trail[k].trav
        /\ \E i \in DOMAIN edges :
              /\ i > FirstEdgeFrom(trail[k].id)
              /\ edges[i]["from"] = trail[k].id
              /\ edges[i]["to"] # trail[k + 1].id

(***************************************************************************)
(* C7: Scenario A.  With payload {age: 21} the logs are the trigger line,  *)
(* the condition line showing true and the send_message line; with         *)
(* {age: 10} the condition line shows false and there is no action line.   *)
(* Either spelling of the boolean is accepted.                             *)
(***************************************************************************)
C7_ScenarioA ==
    (/\ pc = "done"
     /\ nodes = ChainNodes(ExprAttr, SendNode)
     /\ edges = ChainEdges)
      => /\ AgeIs(payload, 21) =>
               /\ Len(logs) = 3
               /\ logs[1].msg = "Trigger: start"
               /\ logs[2].msg \in {"Condition 'ctx.age >= 18' -> true",
                                   "Condition 'ctx.age >= 18' -> True"}
               /\ logs[3].msg = "Action: send_message -> Welcome"
         /\ AgeIs(payload, 10) =>
               /\ Len(logs) = 2
               /\ logs[1].msg = "Trigger: start"
               /\ logs[2].msg \in {"Condition 'ctx.age >= 18' -> false",
                                   "Condition 'ctx.age >= 18' -> False"}

(***************************************************************************)
(* C8: the start nodes taken are the trigger nodes in input order, or,     *)
(* when there is no trigger, the first node of the list, or none when the  *)
(* list is empty; a returned call has taken all of them.                   *)
(***************************************************************************)
ExpectedStarts ==
    IF \E i \in DOMAIN nodes : IsTrigger(nodes[i])
    THEN SelectSeq(nodes, IsTrigger)
    ELSE IF nodes = <<>> THEN <<>> ELSE <<nodes[1]>>

Reasons == {"SyntaxError", "AttributeError", "KeyError", "TypeError", "error"}

C10_NeverRaises == pc # "raised"

(***************************************************************************)
(* C11: two calls with the same nodes, edges and payload return the same   *)
(* log messages (timestamps aside) and the same context.                   *)
(***************************************************************************)
C11_Determinism ==
    (calls = 2 /\ pc = "done") =>
        /\ Messages(result.logs) = Messages(first.logs)
        /\ SameDict(result.context, first.context)

(***************************************************************************)
(* C12: a call with zero nodes never enters a traversal, whatever the      *)
(* edges and the payload: it logs nothing and returns empty logs and a     *)
(* context equal to the payload.                                           *)
(***************************************************************************)
C12_EmptyGraph ==
    nodes = <<>> =>
        /\ pc \in {"for", "done"}
        /\ si = 0 /\ starts = <<>> /\ trail = <<>>
        /\ logs = <<>>
        /\ SameDict(ctx, payload)
        /\ pc = "done" =>
              /\ result.ok
              /\ result.logs = <<>>
              /\ SameDict(result.context, payload)

\* a returned call with no nodes, some edges and a non-empty payload
C12_EmptyGraphReturned ==
    /\ pc = "done"
    /\ nodes = <<>>
    /\ edges # <<>>
    /\ AgeIs(payload, 21)
    /\ AgeIs(result.context, 21)

(***************************************************************************)
(* C13: when the current id has no node the traversal stops there: the     *)
(* step records nothing, nothing of that traversal follows it in the trail *)
(* or in the logs, the call does not raise, and every start node is still  *)
(* taken before the call returns.                                          *)
(***************************************************************************)
C13_DanglingTarget ==
    /\ \A k \in DOMAIN trail :
          ~trail[k].found =>
              /\ trail[k].msgs = <<>>
              /\ trail[k].leave = "break"
              /\ trail[k].nlogs = (IF k = 1 THEN 0 ELSE trail[k - 1].nlogs)
              /\ SameDict(trail[k].ctxout, trail[k].ctxin)
              /\ \A j \in DOMAIN trail : j > k => trail[j].trav > trail[k].trav
              /\ \A i \in DOMAIN logtrav :
                    i > trail[k].nlogs => logtrav[i] > trail[k].trav
              /\ (k = Len(trail) /\ si = trail[k].trav) => pc \in {"for", "done"}
    /\ (\E k \in DOMAIN trail : ~trail[k].found) =>
          /\ pc # "raised"
          /\ pc = "done" => si = Len(start_nodes(nodes))

\* a returned call whose first traversal ran into the id no node has and
\* whose second traversal still logged
C13_DanglingThenNextStart ==
    /\ pc = "done"
    /\ \E k \in TrailOf(1) : ~trail[k].found /\ trail[k].id = "zz"
    /\ \E j \in TrailOf(2) : trail[j].found /\ trail[j].msgs # <<>>

(***************************************************************************)
(* C14, as stated: the context a call returns equals the payload it was    *)
(* given, whatever the nodes are.                                          *)
(***************************************************************************)
C14_ContextFrame ==
    pc = "done" => SameDict(result.context, payload)

(***************************************************************************)
(* C15: the visited set is reset for every start node: while a traversal   *)
(* runs, visited holds exactly the ids that this traversal stepped on, so  *)
(* a node that an earlier traversal executed is executed again, and every  *)
(* traversal steps on its own start node.                                  *)
(***************************************************************************)
C15_VisitedPerStart ==
    /\ pc \in {"while", "for"} =>
          visited = {trail[k].id : k \in TrailOf(si)}
    /\ \A t \in 1..Len(starts) :
          (t < si \/ pc \in {"for", "done"}) =>
              (Truthy(IdOf(starts[t])) =>
                  \E k \in TrailOf(t) : trail[k].id = IdOf(starts[t]))
    /\ \A k \in DOMAIN trail :
          (trail[k].found /\ trail[k].leave = "next"
              /\ (k < Len(trail) \/ pc \in {"for", "done"})
              /\ Truthy(Followed(trail[k].id))
              /\ \A j \in TrailOf(trail[k].trav) :
                    j <= k => trail[j].id # Followed(trail[k].id))
          => /\ k < Len(trail)
             /\ trail[k + 1].trav = trail[k].trav
             /\ trail[k + 1].id = Followed(trail[k].id)

\* a returned call whose two traversals both executed and logged node a1
C15_SharedNodeTwice ==
    /\ pc = "done"
    /\ \E j \in TrailOf(1), k \in TrailOf(2) :
          /\ trail[j].id = "a1" /\ trail[k].id = "a1"
          /\ trail[j].msgs # <<>> /\ trail[k].msgs # <<>>

(***************************************************************************)
(* C16: however a traversal ends, the call goes on: the start nodes are    *)
(* taken in input order, one traversal after the other, each of them       *)
(* continuing the trace and the context where the one before left them,    *)
(* and the call returns only after the last start node.                    *)
(***************************************************************************)
C16_AllStartsInOrder ==
    /\ si = Len(starts)
    /\ starts = SubSeq(start_nodes(nodes), 1, si)
    /\ \A k \in DOMAIN trail : trail[k].trav \in 1..si
    /\ \A k \in 1..(Len(trail) - 1) :
          /\ trail[k].trav <= trail[k + 1].trav
          /\ SameDict(trail[k + 1].ctxin, trail[k].ctxout)
          /\ trail[k + 1].nlogs = trail[k].nlogs + Len(trail[k + 1].msgs)
    /\ \A i \in 1..(Len(logtrav) - 1) : logtrav[i] <= logtrav[i + 1]
    /\ trail # <<>> =>
          /\ SameDict(trail[1].ctxin, payload)
          /\ SameDict(ctx, trail[Len(trail)].ctxout)
          /\ Len(logs) = trail[Len(trail)].nlogs
    /\ pc = "done" => si = Len(start_nodes(nodes))

\* a returned call whose first traversal ended at a condition that removed
\* a key from the context, and whose second traversal found the same
\* condition false for that reason
C16_SecondStartSeesContext ==
    /\ pc = "done"
    /\ \E j \in TrailOf(1), k \in TrailOf(2) :
          /\ trail[j].id = "a1" /\ trail[k].id = "a1"
          /\ trail[j].ok /\ ~trail[k].ok
          /\ ~SameDict(trail[k].ctxin, payload)

(***************************************************************************)
(* C17: the logs only grow at their end; at every step they are the        *)
(* messages of the steps taken so far, in the order of the steps and with  *)
(* timestamps that never decrease, and the call returns exactly them.      *)
(***************************************************************************)
IsPrefix(a, b) == Len(a) <= Len(b) /\ SubSeq(b, 1, Len(a)) = a

RECURSIVE TrailMessages(_)
TrailMessages(tr) ==
    IF tr = <<>> THEN <<>>
    ELSE TrailMessages(SubSeq(tr, 1, Len(tr) - 1)) \o tr[Len(tr)].msgs

TraceInOrder ==
    /\ Messages(logs) = TrailMessages(trail)
    /\ \A i \in 1..(Len(logs) - 1) : logs[i].ts <= logs[i + 1].ts
    /\ pc = "done" => result.logs = logs

C17_AppendOnlyTrace ==
    [][IsPrefix(logs, logs') /\ TraceInOrder']_vars

\* a returned call with at least three events, of two traversals
C17_LongTrace ==
    /\ pc = "done"
    /\ Len(result.logs) >= 3
    /\ \E i, j \in DOMAIN logtrav : logtrav[i] = 1 /\ logtrav[j] = 2

(***************************************************************************)
(* C18: a step on a node whose type is none of trigger, condition, action  *)
(* (a node without a type included) records nothing, leaves the context    *)
(* alone and does not stop the traversal; like any step that goes on, it   *)
(* is followed by a step on the target of the node's first edge unless the *)
(* node has no edge or the target was visited in this traversal.           *)
(***************************************************************************)
KnownTypes == {"trigger", "condition", "action"}

GoesOn(k) ==
    LET to == Followed(trail[k].id)
        stepped == k < Len(trail) /\ trail[k + 1].trav = trail[k].trav
        pending == k = Len(trail) /\ pc = "while" /\ si = trail[k].trav
    IN /\ pending => current_id = to
       /\ ~pending =>
             IF /\ Truthy(to)
                /\ \A j \in TrailOf(trail[k].trav) : j <= k => trail[j].id # to
             THEN stepped /\ trail[k + 1].id = to
             ELSE ~stepped

C18_OtherTypePassesThrough ==
    \A k \in DOMAIN trail :
        /\ (trail[k].found /\ NodeType(trail[k]) \notin KnownTypes) =>
              /\ trail[k].msgs = <<>>
              /\ trail[k].nlogs = (IF k = 1 THEN 0 ELSE trail[k - 1].nlogs)
              /\ SameDict(trail[k].ctxout, trail[k].ctxin)
              /\ trail[k].leave = "next"
        /\ (trail[k].found /\ trail[k].leave = "next") => GoesOn(k)

\* a returned call that stepped on a node without a type and then on the
\* target of its first edge, which logged
C18_UntypedThenSuccessor ==
    /\ pc = "done"
    /\ \E k \in 1..(Len(trail) - 1) :
          /\ trail[k].found
          /\ "type" \notin DOMAIN trail[k].node
          /\ trail[k + 1].trav = trail[k].trav
          /\ trail[k + 1].id = Followed(trail[k].id)
          /\ trail[k + 1].msgs # <<>>

(***************************************************************************)
(* C19: in every interleaving of the handlers, a broadcast copies the list *)
(* registered when it starts and attempts a send to each websocket of the  *)
(* copy, in order, whether or not earlier sends failed; a failed send's    *)
(* websocket is not registered afterwards; a disconnect of a websocket     *)
(* that is not registered changes nothing in the registry.                 *)
(***************************************************************************)
Registered == {Get(active, Chat, <<>>)[i] : i \in DOMAIN Get(active, Chat, <<>>)}

Targets(a) == [i \in DOMAIN a |-> a[i].ws]

BroadcastCovers ==
    \A w \in Sockets :
        /\ Targets(att[w]) \o bq[w] = snap[w]
        /\ hpc[w] # "bcast" => bq[w] = <<>>

StepOf(w) ==
    /\ (hpc[w] = "recv" /\ hpc'[w] = "bcast") =>
          /\ snap'[w] = Get(active, Chat, <<>>)
          /\ att'[w] = <<>>
          /\ active' = active
    /\ Len(att'[w]) = Len(att[w]) + 1 =>
          LET r == att'[w][Len(att'[w])]
          IN /\ r.ws = Head(bq[w])
             /\ bq'[w] = Tail(bq[w])
             /\ r.ok => active' = active
             /\ ~r.ok => r.ws \notin Registered'
             /\ (~r.ok /\ r.ws \notin Registered) => active' = active
    /\ (hpc[w] = "recv" /\ hpc'[w] = "closed") =>
          /\ w \notin Registered'
          /\ w \notin Registered => active' = active

C19_Registry ==
    [][BroadcastCovers' /\ \A w \in Sockets : StepOf(w)]_vars

\* a finished broadcast to three websockets whose first send failed, on a
\* websocket whose handler had gone, and whose last send succeeded
C19_FailureThenSends ==
    \E w \in Sockets :
        /\ hpc[w] = "recv"
        /\ Len(snap[w]) = 3
        /\ Len(att[w]) = 3
        /\ ~att[w][1].ok /\ hpc[att[w][1].ws] = "closed"
        /\ att[w][3].ok
        /\ att[w][1].ws \notin Registered
====
